---- MODULE Spec2Model ----
(***************************************************************************)
(* Reservation and waitlist engine of the railway management program       *)
(* (src/tempCodeRunnerFile.cpp): Train seat map, Booking ledger, waitlist  *)
(* map, PNR generator, payment gateway journal and the flat-file snapshot. *)
(* One action per public operation of RailwayManager.                      *)
(***************************************************************************)
EXTENDS Integers, Sequences, FiniteSets, TLC

(* ---------------- bounds of the model ---------------- *)

\* Number of PNRs the generator may issue in one run (booking attempts).
MaxBookings == 3
\* Seats of the catalogued train (any value > 0 can be entered for a train).
TotalSeats == 2
\* Largest passenger group drawn as an input: the coordinator accepts 1..6,
\* here up to a full train.
MaxGroup == TotalSeats
\* Longest transaction log for which a cancellation is still drawn.
MaxJournal == 10

(* ---------------- program constants ---------------- *)

\* PNRs are modelled as their offset above 100000000000, the initial counter.
PNRBase == 0
\* Base fare of the catalogued express train.
BaseFare == 55

(* ---------------- catalog and inputs ---------------- *)

TrainNumbers == {"ET001"}
UnknownTrain == "XX999"
\* Journey dates that pass isValidDate (the callers validate before calling).
Dates == {"01/01/2030", "01/02/2030"}
\* The constructor's "today" string, month/day/year without zero padding.
Today == "11/2/2026"
\* Dates a customer may type that are not MM/DD/YYYY with month 1..12 and
\* day 1..31: month 13, day 32, no zero padding, wrong separator, a letter.
MalformedDates == {"13/01/2030", "01/32/2030", "1/1/2030", "01-01-2030",
                   "0a/01/2030"}
\* Journey dates the seat management of a train is exercised with on its
\* own: the dates of the bookings and one more date that passes isValidDate.
InventoryDates == Dates \cup {"12/31/2030"}
\* Everything the coordinator may read as a journey date.
DateInputs == Dates \cup MalformedDates

\* The characters of every date string of the model ("" is the date of a
\* default-constructed Booking).
DateText ==
    "01/01/2030" :> <<"0", "1", "/", "0", "1", "/", "2", "0", "3", "0">> @@
    "01/02/2030" :> <<"0", "1", "/", "0", "2", "/", "2", "0", "3", "0">> @@
    "12/31/2030" :> <<"1", "2", "/", "3", "1", "/", "2", "0", "3", "0">> @@
    "13/01/2030" :> <<"1", "3", "/", "0", "1", "/", "2", "0", "3", "0">> @@
    "01/32/2030" :> <<"0", "1", "/", "3", "2", "/", "2", "0", "3", "0">> @@
    "1/1/2030"   :> <<"1", "/", "1", "/", "2", "0", "3", "0">> @@
    "01-01-2030" :> <<"0", "1", "-", "0", "1", "-", "2", "0", "3", "0">> @@
    "0a/01/2030" :> <<"0", "a", "/", "0", "1", "/", "2", "0", "3", "0">> @@
    "11/2/2026"  :> <<"1", "1", "/", "2", "/", "2", "0", "2", "6">> @@
    ""           :> <<>>

\* isdigit and the value of a decimal digit.
DigitValue ==
    "0" :> 0 @@ "1" :> 1 @@ "2" :> 2 @@ "3" :> 3 @@ "4" :> 4 @@
    "5" :> 5 @@ "6" :> 6 @@ "7" :> 7 @@ "8" :> 8 @@ "9" :> 9
isdigit(c) == c \in DOMAIN DigitValue

\* A validation that checks the shape of the string but not the ranges.
isValidDateShapeOnly(date) ==
    LET c == DateText[date] IN
    /\ Len(c) = 10 /\ c[3] = "/" /\ c[6] = "/"
    /\ \A i \in {1, 2, 4, 5, 7, 8, 9, 10} : isdigit(c[i])

\* bool isValidDate(date): length 10, slashes at 2 and 5, digits elsewhere,
\* month 1..12 and day 1..31.
isValidDate(date) ==
    LET c == DateText[date] IN
    /\ Len(c) = 10 /\ c[3] = "/" /\ c[6] = "/"
    /\ \A i \in {1, 2, 4, 5, 7, 8, 9, 10} : isdigit(c[i])
    /\ LET month == 10 * DigitValue[c[1]] + DigitValue[c[2]]
           day == 10 * DigitValue[c[4]] + DigitValue[c[5]]
       IN ~(month < 1 \/ month > 12 \/ day < 1 \/ day > 31)

Keys == {<<t, d>> : t \in TrainNumbers, d \in Dates}

VARIABLES
    seatMap,      \* Train::seatMap per train: sequence of SeatAllocation
    bookings,     \* RailwayManager::bookings (ledger, insertion order)
    waitlist,     \* RailwayManager::waitlist, per "TrainNum|Date" key
    currentPNR,   \* PNRGenerator::currentPNR (offset above the base)
    pnrFile,      \* contents of pnr_counter.txt
    journal,      \* lines appended to transactions.log
    trainFile,    \* contents of trains_data.txt (serialized seat maps)
    bookingFile,  \* contents of bookings_data.txt (serialized bookings)
    lastRank,     \* rank last announced by placeOnWaitlist per key, 0 if none
    console,      \* "InvalidDate" when the last message printed is the
                  \* coordinator's "Invalid Date Format", "" otherwise
    gateway       \* the calls of PaymentGateway::processPayment and
                  \* processRefund made so far, when they are observed

\* The state of the reservation engine and its files.
engine == <<seatMap, bookings, waitlist, currentPNR, pnrFile, journal,
            trainFile, bookingFile, lastRank>>

vars == <<seatMap, bookings, waitlist, currentPNR, pnrFile, journal,
          trainFile, bookingFile, lastRank, console, gateway>>

(* ---------------- small helpers ---------------- *)

getTotalSeats(tNum) == TotalSeats
getBaseFare(tNum) == BaseFare

\* Train* findTrain(tNum): TRUE when the catalog holds the train.
findTrain(tNum) == tNum \in TrainNumbers

\* Index of the first allocation for the date, 0 when there is none.
allocIndex(sm, date) ==
    IF \E i \in 1..Len(sm) : sm[i].date = date
    THEN CHOOSE i \in 1..Len(sm) :
            /\ sm[i].date = date
            /\ \A j \in 1..(i - 1) : sm[j].date # date
    ELSE 0

\* Index of the first booking with the PNR, 0 when there is none.
findBooking(bk, pnr) ==
    IF \E i \in 1..Len(bk) : bk[i].pnr = pnr
    THEN CHOOSE i \in 1..Len(bk) :
            /\ bk[i].pnr = pnr
            /\ \A j \in 1..(i - 1) : bk[j].pnr # pnr
    ELSE 0

(* ---------------- Train: seat management by date ---------------- *)

\* int getAvailableSeats(date): the value returned and the seat map after it.
getAvailableSeats(sm, total, date) ==
    LET i == allocIndex(sm, date) IN
    IF i # 0 THEN [ret |-> sm[i].availableSeats, seatMap |-> sm]
    ELSE IF isValidDate(date)
         THEN [ret |-> total,
               seatMap |-> Append(sm, [date |-> date, availableSeats |-> total])]
         ELSE [ret |-> -1, seatMap |-> sm]

\* A bookSeat that takes one seat whatever the count.
bookSeatOne(sm, total, date, count) ==
    LET i == allocIndex(sm, date) IN
    IF i # 0
    THEN IF sm[i].availableSeats >= count
         THEN [ok |-> TRUE,
               seatMap |-> [sm EXCEPT ![i].availableSeats = @ - 1]]
         ELSE [ok |-> FALSE, seatMap |-> sm]
    ELSE IF isValidDate(date) /\ count <= total
         THEN [ok |-> TRUE,
               seatMap |-> Append(sm, [date |-> date,
                                       availableSeats |-> total - 1])]
         ELSE [ok |-> FALSE, seatMap |-> sm]

\* bool bookSeat(date, count): the result and the seat map after it.
bookSeat(sm, total, date, count) ==
    LET i == allocIndex(sm, date) IN
    IF i # 0
    THEN IF sm[i].availableSeats >= count
         THEN [ok |-> TRUE,
               seatMap |-> [sm EXCEPT ![i].availableSeats = @ - count]]
         ELSE [ok |-> FALSE, seatMap |-> sm]
    ELSE IF isValidDate(date) /\ count <= total
         THEN [ok |-> TRUE,
               seatMap |-> Append(sm, [date |-> date,
                                       availableSeats |-> total - count])]
         ELSE [ok |-> FALSE, seatMap |-> sm]

\* A cancelSeat that subtracts the count, as bookSeat does.
cancelSeatSubtracts(sm, total, date, count) ==
    LET i == allocIndex(sm, date) IN
    IF i # 0
    THEN LET v == sm[i].availableSeats - count IN
         [sm EXCEPT ![i].availableSeats = IF v > total THEN total ELSE v]
    ELSE sm

\* A cancelSeat that adds the count without the clamp.
cancelSeatNoClamp(sm, total, date, count) ==
    LET i == allocIndex(sm, date) IN
    IF i # 0 THEN [sm EXCEPT ![i].availableSeats = @ + count] ELSE sm

\* void cancelSeat(date, count): adds the count, clamped to totalSeats.
cancelSeat(sm, total, date, count) ==
    LET i == allocIndex(sm, date) IN
    IF i # 0
    THEN LET v == sm[i].availableSeats + count IN
         [sm EXCEPT ![i].availableSeats = IF v > total THEN total ELSE v]
    ELSE sm

\* The three seat management calls made on a train on their own, with any
\* date that passes isValidDate and any count of a group.
callGetAvailableSeats ==
    \E tNum \in TrainNumbers, date \in InventoryDates :
        seatMap' = [seatMap EXCEPT ![tNum] =
                       getAvailableSeats(@, getTotalSeats(tNum), date).seatMap]
callBookSeat ==
    \E tNum \in TrainNumbers, date \in InventoryDates, count \in 1..MaxGroup :
        seatMap' = [seatMap EXCEPT ![tNum] =
                       bookSeat(@, getTotalSeats(tNum), date, count).seatMap]
callCancelSeat ==
    \E tNum \in TrainNumbers, date \in InventoryDates, count \in 1..MaxGroup :
        seatMap' = [seatMap EXCEPT ![tNum] =
                       cancelSeat(@, getTotalSeats(tNum), date, count)]

(* ---------------- persistence ---------------- *)

\* SeatAllocation::serialize: Date|Seats
serializeAlloc(a) == <<a.date, a.availableSeats>>

\* Train::serializeSeatMap: Count:Date1|Seats1;Date2|Seats2;
serializeSeatMap(sm) == <<Len(sm), [i \in 1..Len(sm) |-> serializeAlloc(sm[i])]>>

\* Booking::serialize: PNR|TrainNum|Date|Fare|Status|PassengerCount|...
serializeBooking(b) ==
    <<b.pnr, b.trainNumber, b.date, b.totalFare, b.status, b.numPassengers>>

\* A booking loop of saveData that stops one record early.
saveBookingsAllButLast(bk) ==
    [i \in 1..(Len(bk) - 1) |-> serializeBooking(bk[i])]

\* saveData(): the train file and the booking file it writes.
saveTrains(sms) == [t \in TrainNumbers |-> serializeSeatMap(sms[t])]
saveBookings(bk) == [i \in 1..Len(bk) |-> serializeBooking(bk[i])]

\* What getline(ss, segment, '|') yields for a line: the sequence of its
\* '|'-separated fields. A field is text or a decimal number; segs is the
\* number of its '&'-separated segments.
Txt(str) == [isNum |-> FALSE, s |-> str, n |-> 0, segs |-> 1]
Num(val) == [isNum |-> TRUE, s |-> "", n |-> val, segs |-> 1]
\* The field "Gender&Name" where two passengers meet in the passenger data.
TxtJoined(str) == [isNum |-> FALSE, s |-> str, n |-> 0, segs |-> 2]

\* The PNR of a default-constructed Booking (the empty string).
EmptyPNR == PNRBase - 1

\* Booking(): the default-constructed record.
EmptyBooking ==
    [pnr |-> EmptyPNR, trainNumber |-> "", date |-> "", numPassengers |-> 0,
     totalFare |-> 0, status |-> ""]

\* The fields of the passenger data of n passengers, Name|Age|Gender joined
\* by '&': Name, Age, Gender&Name, Age, ..., Gender.
RECURSIVE passengerData(_)
passengerData(n) ==
    IF n = 0 THEN <<>>
    ELSE IF n = 1 THEN <<Txt("Name"), Num(30), Txt("G")>>
    ELSE <<Txt("Name"), Num(30), TxtJoined("G&Name")>> \o Tail(passengerData(n - 1))

\* The fields of a booking line. A complete line has the six leading fields
\* and the fields of the passenger data (none when there is no passenger:
\* the line then ends in '|'); a line cut short has its leading fields only.
splitBookingLine(line) ==
    LET lead == <<IF line[1] = EmptyPNR THEN Txt("") ELSE Num(line[1])>>
                \o (IF Len(line) >= 2 THEN <<Txt(line[2])>> ELSE <<>>)
                \o (IF Len(line) >= 3 THEN <<Txt(line[3])>> ELSE <<>>)
                \o (IF Len(line) >= 4 THEN <<Num(line[4])>> ELSE <<>>)
                \o (IF Len(line) >= 5 THEN <<Txt(line[5])>> ELSE <<>>)
                \o (IF Len(line) >= 6 THEN <<Num(line[6])>> ELSE <<>>)
    IN IF Len(line) >= 6 THEN lead \o passengerData(line[6]) ELSE lead

\* Passengers that Booking::deserialize rebuilds from parts[6]: it reads up to
\* p_count '&'-segments of that one field and keeps a segment that splits
\* into three on '|'. A field has no '|' left in it: each segment is one part.
passengersParsed(field, p_count) ==
    LET upTo == IF p_count < field.segs THEN p_count ELSE field.segs
        partsOfSegment == 1
    IN Cardinality({i \in 1..upTo : partsOfSegment = 3})

\* Booking::deserialize: fewer than 7 fields, or a fare or count that is not
\* a number (stod/stoi throw), give the default-constructed Booking.
deserializeBooking(line) ==
    LET parts == splitBookingLine(line) IN
    IF Len(parts) < 7 THEN EmptyBooking
    ELSE IF ~parts[4].isNum \/ ~parts[6].isNum THEN EmptyBooking
    ELSE [pnr |-> IF parts[1].isNum THEN parts[1].n ELSE EmptyPNR,
          trainNumber |-> parts[2].s, date |-> parts[3].s,
          numPassengers |-> passengersParsed(parts[7], parts[6].n),
          totalFare |-> parts[4].n, status |-> parts[5].s]

\* Route::serialize of the catalogued route: Src|Dest
serializeRoute == <<Txt("CityA"), Txt("CityB")>>

\* The fields of a train line before its seat map data, as
\* ExpressTrain::serialize writes them:
\* TYPE|Num|Name|RouteData|TotalSeats|BaseFare|Pantry|SeatMapData
splitTrainLine(tNum) ==
    <<Txt("EXPRESS"), Txt(tNum), Txt("Fast Express")>>
    \o serializeRoute
    \o <<Num(getTotalSeats(tNum)), Num(getBaseFare(tNum)), Num(1)>>

\* The train branch of loadData for the line of train tNum: the train is
\* kept when the line has at least 8 fields (the seat map data adds at least
\* one) and stoi(parts[4]) and stod(parts[5]) do not throw. parts[4] is the
\* route's destination, because the route data holds a '|' of its own.
trainLoads(tNum) ==
    LET parts == splitTrainLine(tNum) IN
    /\ Len(parts) + 1 >= 8
    /\ parts[1].s = "EXPRESS"
    /\ parts[5].isNum
    /\ parts[6].isNum

\* pnr_counter.txt: missing, empty, not a number, or a number.
NoPnrFile == [kind |-> "absent", n |-> PNRBase]
\* PNRGenerator::savePNR writes the counter.
savePNR(pnr) == [kind |-> "number", n |-> pnr]
\* The counter file between the ofstream constructor of savePNR, which
\* truncates it, and the write of the value.
truncatedPnrFile == [kind |-> "empty", n |-> PNRBase]

\* A loadPNR without the floor check.
loadPNRNoFloor(file) ==
    IF file.kind = "number" THEN file.n ELSE PNRBase

\* PNRGenerator::loadPNR: the counter keeps its initial value when the file
\* is missing or empty, is reset when stoll throws, and is raised to the
\* floor when the number read is below it.
loadPNR(file) ==
    LET read == IF file.kind = "number" THEN file.n ELSE PNRBase
    IN IF read < PNRBase THEN PNRBase ELSE read

\* A logTransaction that writes COMMITTED in place of the status it is given.
logTransactionCommitted(log, pnr, action, status) ==
    Append(log, [pnr |-> pnr, action |-> action, status |-> "COMMITTED"])

\* PaymentGateway::logTransaction appends one line pnr|action|status.
logTransaction(log, pnr, action, status) ==
    Append(log, [pnr |-> pnr, action |-> action, status |-> status])

(* ---------------- waitlist and promotion ---------------- *)

\* A placeOnWaitlist that repeats the last rank instead of adding one.
placeOnWaitlistSameRank(wl, b) ==
    LET key == <<b.trainNumber, b.date>>
        entry == [pnr |-> b.pnr, date |-> b.date, numSeats |-> b.numPassengers,
                  rank |-> IF wl[key] = <<>> THEN 1
                           ELSE wl[key][Len(wl[key])].rank]
    IN [wl EXCEPT ![key] = Append(@, entry)]

\* A placeOnWaitlist that ranks by the queue length before the append.
placeOnWaitlistBySize(wl, b) ==
    LET key == <<b.trainNumber, b.date>>
        entry == [pnr |-> b.pnr, date |-> b.date, numSeats |-> b.numPassengers,
                  rank |-> Len(wl[key])]
    IN [wl EXCEPT ![key] = Append(@, entry)]

\* void placeOnWaitlist(newBooking): the waitlist map after the append.
placeOnWaitlist(wl, b) ==
    LET key == <<b.trainNumber, b.date>>
        entry == [pnr |-> b.pnr, date |-> b.date, numSeats |-> b.numPassengers,
                  rank |-> IF wl[key] = <<>> THEN 1
                           ELSE wl[key][Len(wl[key])].rank + 1]
    IN [wl EXCEPT ![key] = Append(@, entry)]

\* The rank placeOnWaitlist prints for the entry it has just appended.
announcedRank(wl, key) == wl[key][Len(wl[key])].rank

\* A loop body that promotes without looking at the booking's status.
promoteEntryAnyStatus(st, entry, total, date) ==
    IF st.seatsToPromote >= entry.numSeats
    THEN LET i == findBooking(st.bookings, entry.pnr) IN
         IF i # 0
         THEN LET r == bookSeat(st.seatMap, total, date, entry.numSeats) IN
              IF r.ok
              THEN [st EXCEPT !.seatMap = r.seatMap,
                              !.bookings[i].status = "Confirmed",
                              !.seatsToPromote = @ - entry.numSeats,
                              !.promoted = TRUE]
              ELSE [st EXCEPT !.remainingWL = Append(@, entry)]
         ELSE st
    ELSE [st EXCEPT !.remainingWL = Append(@, entry)]

\* A loop body that takes the promoted record out of the ledger and appends
\* it again as Confirmed.
promoteEntryReinserts(st, entry, total, date) ==
    IF st.seatsToPromote >= entry.numSeats
    THEN LET i == findBooking(st.bookings, entry.pnr) IN
         IF i # 0 /\ st.bookings[i].status = "Waitlist"
         THEN LET r == bookSeat(st.seatMap, total, date, entry.numSeats) IN
              IF r.ok
              THEN [st EXCEPT !.seatMap = r.seatMap,
                              !.bookings =
                                  SubSeq(@, 1, i - 1)
                                  \o SubSeq(@, i + 1, Len(@))
                                  \o <<[@[i] EXCEPT !.status = "Confirmed"]>>,
                              !.seatsToPromote = @ - entry.numSeats,
                              !.promoted = TRUE]
              ELSE [st EXCEPT !.remainingWL = Append(@, entry)]
         ELSE st
    ELSE [st EXCEPT !.remainingWL = Append(@, entry)]

\* A loop body that promotes at most one entry in a pass.
promoteEntryOnePerPass(st, entry, total, date) ==
    IF st.seatsToPromote >= entry.numSeats /\ ~st.promoted
    THEN LET i == findBooking(st.bookings, entry.pnr) IN
         IF i # 0 /\ st.bookings[i].status = "Waitlist"
         THEN LET r == bookSeat(st.seatMap, total, date, entry.numSeats) IN
              IF r.ok
              THEN [st EXCEPT !.seatMap = r.seatMap,
                              !.bookings[i].status = "Confirmed",
                              !.seatsToPromote = @ - entry.numSeats,
                              !.promoted = TRUE]
              ELSE [st EXCEPT !.remainingWL = Append(@, entry)]
         ELSE st
    ELSE [st EXCEPT !.remainingWL = Append(@, entry)]

\* Body of the for loop of promoteWaitlist, for one entry of the queue.
\* st: seatMap (of the train), bookings, seatsToPromote, remainingWL, promoted.
promoteEntry(st, entry, total, date) ==
    IF st.seatsToPromote >= entry.numSeats
    THEN LET i == findBooking(st.bookings, entry.pnr) IN
         IF i # 0 /\ st.bookings[i].status = "Waitlist"
         THEN LET r == bookSeat(st.seatMap, total, date, entry.numSeats) IN
              IF r.ok
              THEN [st EXCEPT !.seatMap = r.seatMap,
                              !.bookings[i].status = "Confirmed",
                              !.seatsToPromote = @ - entry.numSeats,
                              !.promoted = TRUE]
              ELSE [st EXCEPT !.remainingWL = Append(@, entry)]
         ELSE st
    ELSE [st EXCEPT !.remainingWL = Append(@, entry)]

\* A loop that visits the queue from its last entry to its first.
RECURSIVE promoteLoopFromBack(_, _, _, _, _)
promoteLoopFromBack(q, i, st, total, date) ==
    IF i > Len(q) THEN st
    ELSE promoteLoopFromBack(q, i + 1,
                             promoteEntry(st, q[Len(q) - i + 1], total, date),
                             total, date)

\* The for loop of promoteWaitlist over the queue q, from position i.
RECURSIVE promoteLoop(_, _, _, _, _)
promoteLoop(q, i, st, total, date) ==
    IF i > Len(q) THEN st
    ELSE promoteLoop(q, i + 1, promoteEntry(st, q[i], total, date), total, date)

\* void promoteWaitlist(date, train, availableSeats): the seat maps, ledger
\* and waitlist map after the pass, and whether it saved (promoted).
promoteWaitlist(date, tNum, availableSeats, sms, bk, wl) ==
    LET key == <<tNum, date>> IN
    IF wl[key] = <<>> \/ availableSeats <= 0
    THEN [seatMap |-> sms, bookings |-> bk, waitlist |-> wl, promoted |-> FALSE]
    ELSE LET st0 == [seatMap |-> sms[tNum], bookings |-> bk,
                     seatsToPromote |-> availableSeats,
                     remainingWL |-> <<>>, promoted |-> FALSE]
             st == promoteLoop(wl[key], 1, st0, getTotalSeats(tNum), date)
         IN IF st.promoted
            THEN [seatMap |-> [sms EXCEPT ![tNum] = st.seatMap],
                  bookings |-> st.bookings,
                  waitlist |-> [wl EXCEPT ![key] = st.remainingWL],
                  promoted |-> TRUE]
            ELSE [seatMap |-> [sms EXCEPT ![tNum] = st.seatMap],
                  bookings |-> st.bookings, waitlist |-> wl, promoted |-> FALSE]

(* ---------------- initial state ---------------- *)

\* The catalog loadData creates when no train was loaded: each train is
\* constructed with the single allocation {today, totalSeats}.
defaultTrains ==
    [t \in TrainNumbers |->
        <<[date |-> Today, availableSeats |-> getTotalSeats(t)]>>]

\* State after construction with no data files: the catalogued train with the
\* constructor's "today" allocation, an empty ledger and an empty waitlist.
Init ==
    /\ seatMap = defaultTrains
    /\ bookings = <<>>
    /\ waitlist = [k \in Keys |-> <<>>]
    /\ currentPNR = loadPNR(NoPnrFile)
    /\ pnrFile = NoPnrFile
    /\ journal = <<>>
    /\ trainFile = saveTrains(seatMap)
    /\ bookingFile = <<>>
    /\ lastRank = [k \in Keys |-> 0]
    /\ console = ""
    /\ gateway = <<>>

(* ---------------- booking ---------------- *)

\* A capacity test that needs one seat more than requested.
hasCapacityStrict(available, numPassengers) == available > numPassengers

\* The inventory check of bookSingleTicket.
hasCapacity(available, numPassengers) == available >= numPassengers

\* A capacity branch that reserves the seats before the payment is known.
commitSeatsBeforePayment(sm, total, date, count, paid) ==
    bookSeat(sm, total, date, count).seatMap

\* The sufficient-capacity branch of bookSingleTicket: seats are reserved
\* only when processPayment succeeded.
commitSeats(sm, total, date, count, paid) ==
    IF paid THEN bookSeat(sm, total, date, count).seatMap ELSE sm

\* PNRGenerator::generate: increments the counter and saves it.
generate(pnr) == pnr + 1

\* PNRs issued so far, over all runs: the BOOKING_ATTEMPT lines of the log.
issued(log) == {k \in 1..Len(log) : log[k].action = "BOOKING_ATTEMPT"}

\* bookSingleTicket(tNum, date, passengers) with n passengers; paid is
\* processPayment's outcome.
bookSingleTicket(tNum, date, n, paid) ==
      /\ currentPNR - PNRBase < MaxBookings
      /\ IF ~findTrain(tNum)
         THEN UNCHANGED engine
         ELSE
              LET total == getTotalSeats(tNum)
                  fare == getBaseFare(tNum) * n
                  pnr == generate(currentPNR)
                  key == <<tNum, date>>
                  log1 == logTransaction(journal, pnr, "BOOKING_ATTEMPT",
                                         "PENDING_PAYMENT")
                  g == getAvailableSeats(seatMap[tNum], total, date)
                  sufficient == hasCapacity(g.ret, n)
                  finalStatus == IF sufficient THEN "Confirmed" ELSE "Waitlist"
                  sm2 == IF sufficient
                         THEN commitSeats(g.seatMap, total, date, n, paid)
                         ELSE g.seatMap
                  newBooking == [pnr |-> pnr, trainNumber |-> tNum,
                                 date |-> date, numPassengers |-> n,
                                 totalFare |-> fare, status |-> finalStatus]
                  wl2 == IF finalStatus = "Waitlist"
                         THEN placeOnWaitlist(waitlist, newBooking)
                         ELSE waitlist
              IN /\ currentPNR' = pnr
                 /\ pnrFile' = savePNR(pnr)
                 /\ seatMap' = [seatMap EXCEPT ![tNum] = sm2]
                 /\ IF paid
                    THEN /\ journal' = logTransaction(log1, pnr, "PAYMENT_SUCCESS",
                                IF sufficient THEN "COMMITTED" ELSE "WAITLISTED")
                         /\ bookings' = Append(bookings, newBooking)
                         /\ waitlist' = wl2
                         /\ lastRank' = IF finalStatus = "Waitlist"
                                        THEN [lastRank EXCEPT ![key] =
                                                announcedRank(wl2, key)]
                                        ELSE lastRank
                         /\ trainFile' = saveTrains(seatMap')
                         /\ bookingFile' = saveBookings(bookings')
                    ELSE /\ journal' = logTransaction(log1, pnr, "PAYMENT_FAILED",
                                                      "ROLLED_BACK")
                         /\ UNCHANGED <<bookings, waitlist, lastRank, trainFile,
                                        bookingFile>>

\* One group of the coordinator that passed its checks (valid date, 1..6
\* passengers): the call of bookSingleTicket.
bookGroup ==
    \E tNum \in TrainNumbers \cup {UnknownTrain}, date \in Dates,
       n \in 1..MaxGroup, paid \in BOOLEAN :
        bookSingleTicket(tNum, date, n, paid)

\* One group of coordinateMultipleBookings: the train number and the date
\* are read, a date that fails isValidDate skips the group with a message,
\* otherwise the passengers are read and bookSingleTicket is called.
coordinateMultipleBookings ==
    \E tNum \in TrainNumbers \cup {UnknownTrain}, date \in DateInputs :
      IF ~isValidDate(date)
      THEN /\ console' = "InvalidDate"
           /\ UNCHANGED engine
      ELSE /\ console' = ""
           /\ \E n \in 1..MaxGroup, paid \in BOOLEAN :
                 bookSingleTicket(tNum, date, n, paid)

(* ---------------- cancellation ---------------- *)

\* A cancellation that offers only the seats it freed to the promotion pass.
promotionCapacityFreedOnly(freedSeats, available) == freedSeats

\* The capacity cancelBooking hands to promoteWaitlist.
promotionCapacity(freedSeats, available) == available

\* cancelBooking(pnr).
cancelBookingOf(pnr) ==
      LET i == findBooking(bookings, pnr) IN
      IF i = 0
      THEN UNCHANGED engine
      ELSE LET b == bookings[i]
               currentStatus == b.status
               tNum == b.trainNumber
               total == getTotalSeats(tNum)
               log1 == logTransaction(journal, pnr, "CANCELLATION_ATTEMPT",
                                      "PENDING_REFUND")
           IN /\ Len(journal) + 2 <= MaxJournal
              /\ UNCHANGED <<currentPNR, pnrFile, lastRank>>
              /\ IF currentStatus = "Confirmed"
                 THEN LET sm1 == cancelSeat(seatMap[tNum], total, b.date,
                                            b.numPassengers)
                          g == getAvailableSeats(sm1, total, b.date)
                          cap == promotionCapacity(b.numPassengers, g.ret)
                          pr == promoteWaitlist(b.date, tNum, cap,
                                    [seatMap EXCEPT ![tNum] = g.seatMap],
                                    bookings, waitlist)
                      IN /\ seatMap' = pr.seatMap
                         /\ waitlist' = pr.waitlist
                         /\ bookings' = [pr.bookings EXCEPT
                                            ![i].status = "Cancelled"]
                         /\ journal' = logTransaction(log1, pnr,
                                          "CANCELLATION_SUCCESS", "COMMITTED")
                         /\ trainFile' = saveTrains(seatMap')
                         /\ bookingFile' = saveBookings(bookings')
                 ELSE IF currentStatus = "Waitlist"
                 THEN /\ bookings' = [bookings EXCEPT ![i].status = "Cancelled"]
                      /\ journal' = logTransaction(log1, pnr,
                                       "CANCELLATION_SUCCESS_WL", "COMMITTED")
                      /\ trainFile' = saveTrains(seatMap)
                      /\ bookingFile' = saveBookings(bookings')
                      /\ UNCHANGED <<seatMap, waitlist>>
                 ELSE /\ journal' = log1
                      /\ UNCHANGED <<seatMap, bookings, waitlist, trainFile,
                                     bookingFile>>

\* cancelBooking for any PNR the generator may have issued.
cancelBooking ==
    \E pnr \in (PNRBase + 1)..(PNRBase + MaxBookings) : cancelBookingOf(pnr)

(* ---------------- manual promotion ---------------- *)

\* processWaitlistManual(tNum, date) on the seat maps, ledger and waitlist
\* map given: what it leaves, and whether promoteWaitlist saved.
processWaitlistManualOf(tNum, date, sms, bk, wl) ==
    IF ~findTrain(tNum)
    THEN [seatMap |-> sms, bookings |-> bk, waitlist |-> wl, promoted |-> FALSE]
    ELSE LET g == getAvailableSeats(sms[tNum], getTotalSeats(tNum), date)
             seen == [sms EXCEPT ![tNum] = g.seatMap]
         IN IF g.ret > 0
            THEN promoteWaitlist(date, tNum, g.ret, seen, bk, wl)
            ELSE [seatMap |-> seen, bookings |-> bk, waitlist |-> wl,
                  promoted |-> FALSE]

\* processWaitlistManual(tNum, date), called with a valid date.
processWaitlistManual ==
    \E tNum \in TrainNumbers \cup {UnknownTrain}, date \in Dates :
        LET pr == processWaitlistManualOf(tNum, date, seatMap, bookings,
                                          waitlist)
        IN /\ seatMap' = pr.seatMap
           /\ bookings' = pr.bookings
           /\ waitlist' = pr.waitlist
           /\ trainFile' = IF pr.promoted THEN saveTrains(seatMap')
                           ELSE trainFile
           /\ bookingFile' = IF pr.promoted THEN saveBookings(bookings')
                             ELSE bookingFile
           /\ UNCHANGED <<currentPNR, pnrFile, journal, lastRank>>

(* ---------------- the payment gate, observed ---------------- *)

\* A gate that is asked twice for the same charge.
processPaymentTwice(gw, pnr, amount, ok) ==
    Append(Append(gw, [call |-> "processPayment", pnr |-> pnr,
                       amount |-> amount, ok |-> ok]),
           [call |-> "processPayment", pnr |-> pnr, amount |-> amount,
            ok |-> ok])

\* PaymentGateway::processPayment(amount), called for the booking pnr: the
\* call and its outcome.
processPayment(gw, pnr, amount, ok) ==
    Append(gw, [call |-> "processPayment", pnr |-> pnr, amount |-> amount,
                ok |-> ok])

\* PaymentGateway::processRefund(amount), called for the booking pnr.
processRefund(gw, pnr, amount) ==
    Append(gw, [call |-> "processRefund", pnr |-> pnr, amount |-> amount,
                ok |-> TRUE])

\* A refund of the whole fare whatever the status.
refundAmountFull(totalFare, currentStatus) == totalFare

\* The refund cancelBooking computes: getTotalFare() * 0.8 in the Confirmed
\* branch, getTotalFare() in the Waitlist branch.
refundAmount(totalFare, currentStatus) ==
    IF currentStatus = "Confirmed" THEN (totalFare * 8) \div 10 ELSE totalFare

\* bookSingleTicket with its call of processPayment observed.
bookGroupAtGateway ==
    \E tNum \in TrainNumbers \cup {UnknownTrain}, date \in Dates,
       n \in 1..MaxGroup, paid \in BOOLEAN :
        /\ bookSingleTicket(tNum, date, n, paid)
        /\ gateway' = IF findTrain(tNum)
                      THEN processPayment(gateway, generate(currentPNR),
                                          getBaseFare(tNum) * n, paid)
                      ELSE gateway

\* cancelBooking with its call of processRefund observed.
cancelBookingAtGateway ==
    \E pnr \in (PNRBase + 1)..(PNRBase + MaxBookings) :
        /\ cancelBookingOf(pnr)
        /\ LET i == findBooking(bookings, pnr) IN
           gateway' = IF i # 0 /\ bookings[i].status \in {"Confirmed", "Waitlist"}
                      THEN processRefund(gateway, pnr,
                              refundAmount(bookings[i].totalFare,
                                           bookings[i].status))
                      ELSE gateway

(* ---------------- restart ---------------- *)

\* The booking loop of loadData: every non-empty line is deserialized and
\* pushed to the ledger, whatever deserialize returned.
loadBookings(lines) == [i \in 1..Len(lines) |-> deserializeBooking(lines[i])]

\* The same loop for the waitlist map: a loaded booking whose status is
\* Waitlist is passed to placeOnWaitlist, in file order.
RECURSIVE reenqueue(_, _, _)
reenqueue(bk, i, wl) ==
    IF i > Len(bk) THEN wl
    ELSE reenqueue(bk, i + 1,
                   IF bk[i].status = "Waitlist" THEN placeOnWaitlist(wl, bk[i])
                   ELSE wl)

\* SeatAllocation::deserialize: two fields, else the error value {"", 0}.
deserializeAlloc(a) ==
    IF Len(a) = 2 THEN [date |-> a[1], availableSeats |-> a[2]]
    ELSE [date |-> "", availableSeats |-> 0]

\* Train::deserializeSeatMap: clears the map and pushes what
\* SeatAllocation::deserialize returns for each of the counted entries.
deserializeSeatMap(data) ==
    [i \in 1..data[1] |-> deserializeAlloc(data[2][i])]

\* The train loop of loadData and its fallback: the trains whose line loads
\* get the stored seat map; when no train was loaded the default catalog is
\* created. No line written by ExpressTrain::serialize loads (trainLoads).
loadTrains(file) ==
    IF \A t \in TrainNumbers : ~trainLoads(t) THEN defaultTrains
    ELSE [t \in TrainNumbers |-> deserializeSeatMap(file[t])]

\* Construction of RailwayManager in a new process that finds the counter
\* file, the train file and the booking lines given: loadPNR, then loadData.
loadData(counterFile, trains, lines) ==
    /\ seatMap' = loadTrains(trains)
    /\ bookings' = loadBookings(lines)
    /\ waitlist' = reenqueue(bookings', 1, [k \in Keys |-> <<>>])
    /\ lastRank' = [k \in Keys |->
                      IF waitlist'[k] = <<>> THEN lastRank[k]
                      ELSE announcedRank(waitlist', k)]
    /\ currentPNR' = loadPNR(counterFile)
    /\ console' = ""

\* The program is left (menu exit or kill between two operations) and
\* started again on the files it wrote.
restart ==
    /\ loadData(pnrFile, trainFile, bookingFile)
    /\ UNCHANGED <<pnrFile, journal, trainFile, bookingFile>>

\* The process dies inside bookSingleTicket before saveData: inside savePNR
\* when the counter file is open and not yet written, after savePNR, after
\* the BOOKING_ATTEMPT line or after the payment line. The program is then
\* started again.
crashInBookSingleTicket ==
    \E tNum \in TrainNumbers, date \in Dates, n \in 1..MaxGroup,
       paid \in BOOLEAN,
       point \in {"openCounter", "savePNR", "logAttempt", "logPayment"} :
        LET pnr == generate(currentPNR)
            log1 == logTransaction(journal, pnr, "BOOKING_ATTEMPT",
                                   "PENDING_PAYMENT")
            g == getAvailableSeats(seatMap[tNum], getTotalSeats(tNum), date)
            log2 == IF ~paid
                    THEN logTransaction(log1, pnr, "PAYMENT_FAILED", "ROLLED_BACK")
                    ELSE logTransaction(log1, pnr, "PAYMENT_SUCCESS",
                            IF hasCapacity(g.ret, n) THEN "COMMITTED"
                            ELSE "WAITLISTED")
        IN /\ currentPNR - PNRBase < MaxBookings
           /\ Cardinality(issued(journal)) < MaxBookings
           /\ pnrFile' = IF point = "openCounter" THEN truncatedPnrFile
                         ELSE savePNR(pnr)
           /\ journal' = IF point \in {"openCounter", "savePNR"} THEN journal
                         ELSE IF point = "logAttempt" THEN log1 ELSE log2
           /\ loadData(pnrFile', trainFile, bookingFile)
           /\ UNCHANGED <<trainFile, bookingFile>>

\* The process dies inside cancelBooking of a Confirmed booking, after
\* promoteWaitlist has returned and before the booking is set to Cancelled:
\* the files are those promoteWaitlist saved if it promoted, else the ones
\* written before. The program is then started again.
crashInCancelBooking ==
    \E pnr \in (PNRBase + 1)..(PNRBase + MaxBookings) :
      LET i == findBooking(bookings, pnr) IN
      /\ i # 0
      /\ bookings[i].status = "Confirmed"
      /\ Len(journal) + 2 <= MaxJournal
      /\ LET b == bookings[i]
             tNum == b.trainNumber
             total == getTotalSeats(tNum)
             sm1 == cancelSeat(seatMap[tNum], total, b.date, b.numPassengers)
             g == getAvailableSeats(sm1, total, b.date)
             cap == promotionCapacity(b.numPassengers, g.ret)
             pr == promoteWaitlist(b.date, tNum, cap,
                       [seatMap EXCEPT ![tNum] = g.seatMap], bookings, waitlist)
         IN /\ journal' = logTransaction(journal, pnr, "CANCELLATION_ATTEMPT",
                                         "PENDING_REFUND")
            /\ trainFile' = IF pr.promoted THEN saveTrains(pr.seatMap)
                            ELSE trainFile
            /\ bookingFile' = IF pr.promoted THEN saveBookings(pr.bookings)
                              ELSE bookingFile
            /\ loadData(pnrFile, trainFile', bookingFile')
            /\ UNCHANGED pnrFile

\* Counter files a new process may find in place of the one written.
DamagedCounters ==
    {NoPnrFile, [kind |-> "empty", n |-> PNRBase],
     [kind |-> "text", n |-> PNRBase], [kind |-> "number", n |-> PNRBase - 2]}

\* Booking files with one line cut short after its date field.
DamagedBookingFiles(lines) ==
    {[lines EXCEPT ![i] = SubSeq(@, 1, 3)] : i \in 1..Len(lines)}

\* The program is started again and finds a counter file that is not the
\* one it wrote.
restartDamagedCounter ==
    \E c \in DamagedCounters :
        /\ pnrFile' = c
        /\ loadData(c, trainFile, bookingFile)
        /\ UNCHANGED <<journal, trainFile, bookingFile>>

\* The program is started again and finds a booking file with a damaged
\* line.
restartDamagedBookings ==
    \E lines \in DamagedBookingFiles(bookingFile) :
        /\ bookingFile' = lines
        /\ loadData(pnrFile, trainFile, lines)
        /\ UNCHANGED <<pnrFile, journal, trainFile>>

(* ---------------- specification ---------------- *)

\* One run of the program with requests that pass the input checks.
Next ==
    \/ bookGroup /\ UNCHANGED <<console, gateway>>
    \/ cancelBooking /\ UNCHANGED <<console, gateway>>
    \/ processWaitlistManual /\ UNCHANGED <<console, gateway>>

Spec == Init /\ [][Next]_vars

\* One run of the program driven from the customer menu (book, cancel), the
\* date typed for a booking being any string.
NextCustomer ==
    \/ coordinateMultipleBookings /\ UNCHANGED gateway
    \/ cancelBooking /\ console' = "" /\ UNCHANGED gateway

SpecCustomer == Init /\ [][NextCustomer]_vars

\* Several runs of the program on the files it wrote, a run ending between
\* two operations or inside a booking. MaxBookings bounds the PNRs issued
\* over all runs.
NextRestart ==
    \/ Cardinality(issued(journal)) < MaxBookings /\ bookGroup
          /\ UNCHANGED <<console, gateway>>
    \/ processWaitlistManual /\ UNCHANGED <<console, gateway>>
    \/ restart /\ UNCHANGED gateway
    \/ crashInBookSingleTicket /\ UNCHANGED gateway

SpecRestart == Init /\ [][NextRestart]_vars

\* Several runs of the program, the counter file being lost or replaced
\* between runs.
NextCounter ==
    \/ Cardinality(issued(journal)) < MaxBookings /\ bookGroup
          /\ UNCHANGED <<console, gateway>>
    \/ restart /\ UNCHANGED gateway
    \/ restartDamagedCounter /\ UNCHANGED gateway

SpecCounter == Init /\ [][NextCounter]_vars

\* Several runs of the program, a line of the booking file being damaged
\* between runs.
NextDamage ==
    \/ Cardinality(issued(journal)) < MaxBookings /\ bookGroup
          /\ UNCHANGED <<console, gateway>>
    \/ restart /\ UNCHANGED gateway
    \/ restartDamagedBookings /\ UNCHANGED gateway

SpecDamage == Init /\ [][NextDamage]_vars

\* One run of the program driven from the customer menu (book, cancel) with
\* the calls of the payment gate observed.
NextPayments ==
    \/ bookGroupAtGateway /\ UNCHANGED console
    \/ cancelBookingAtGateway /\ UNCHANGED console

SpecPayments == Init /\ [][NextPayments]_vars

\* The seat management of the catalogued train called on its own, in any
\* order; nothing else of the program runs.
NextInventory ==
    \/ callGetAvailableSeats
         /\ UNCHANGED <<bookings, waitlist, currentPNR, pnrFile, journal,
                        trainFile, bookingFile, lastRank, console, gateway>>
    \/ callBookSeat
         /\ UNCHANGED <<bookings, waitlist, currentPNR, pnrFile, journal,
                        trainFile, bookingFile, lastRank, console, gateway>>
    \/ callCancelSeat
         /\ UNCHANGED <<bookings, waitlist, currentPNR, pnrFile, journal,
                        trainFile, bookingFile, lastRank, console, gateway>>

SpecInventory == Init /\ [][NextInventory]_vars

\* Runs of the program driven from the customer menu, a run ending inside a
\* cancellation.
NextCrash ==
    \/ bookGroup /\ UNCHANGED <<console, gateway>>
    \/ cancelBooking /\ UNCHANGED <<console, gateway>>
    \/ crashInCancelBooking /\ UNCHANGED gateway

SpecCrash == Init /\ [][NextCrash]_vars

\* Several runs of the program with bookings and manual promotion between
\* the restarts.
NextManual ==
    \/ Cardinality(issued(journal)) < MaxBookings /\ bookGroup
          /\ UNCHANGED <<console, gateway>>
    \/ processWaitlistManual /\ UNCHANGED <<console, gateway>>
    \/ restart /\ UNCHANGED gateway

SpecManual == Init /\ [][NextManual]_vars

(* ---------------- vocabulary of the properties ---------------- *)

\* available(service, date): the seats getAvailableSeats would report, a date
\* without an allocation counting as full capacity.
AvailableOf(sms, tNum, date) ==
    LET i == allocIndex(sms[tNum], date) IN
    IF i = 0 THEN getTotalSeats(tNum) ELSE sms[tNum][i].availableSeats

\* The journal holds the line pnr|action|status.
Logged(log, pnr, action, status) ==
    \E k \in 1..Len(log) :
        log[k] = [pnr |-> pnr, action |-> action, status |-> status]

\* The last line of the journal is pnr|action|status.
LastLogged(log, pnr, action, status) ==
    /\ log # <<>>
    /\ log[Len(log)] = [pnr |-> pnr, action |-> action, status |-> status]

\* The step is a call of bookSingleTicket that issued a PNR.
BookStep == currentPNR' = currentPNR + 1

\* The step is a booking whose charge succeeded / was declined.
PaidBookStep ==
    /\ BookStep
    /\ journal' # <<>>
    /\ journal'[Len(journal')].pnr = currentPNR'
    /\ journal'[Len(journal')].action = "PAYMENT_SUCCESS"
DeclinedBookStep == BookStep /\ ~PaidBookStep

\* The step is cancelBooking(pnr) on a ledger record that was Confirmed.
CancelConfirmedStep(pnr) ==
    /\ Len(journal') = Len(journal) + 2
    /\ LastLogged(journal', pnr, "CANCELLATION_SUCCESS", "COMMITTED")

\* Ledger positions promoted (Waitlist to Confirmed) by the step.
PromotedInStep ==
    {j \in 1..Len(bookings) :
        /\ j <= Len(bookings')
        /\ bookings[j].status = "Waitlist"
        /\ bookings'[j].status = "Confirmed"}

\* Total passengers of the ledger positions in S.
RECURSIVE SeatsOf(_, _)
SeatsOf(bk, S) ==
    IF S = {} THEN 0
    ELSE LET j == CHOOSE x \in S : TRUE
         IN bk[j].numPassengers + SeatsOf(bk, S \ {j})

(* ---------------- C1 ---------------- *)

\* C1: for every train and every date entry of its seat map, availableSeats
\* stays within 0..totalSeats after any sequence of book, cancel and manual
\* promotion operations with arbitrary payment outcomes.
C1_SeatsInRange ==
    \A t \in TrainNumbers : \A i \in 1..Len(seatMap[t]) :
        /\ seatMap[t][i].availableSeats >= 0
        /\ seatMap[t][i].availableSeats <= getTotalSeats(t)

\* A date sold out by a promotion that followed a cancellation.
C1_Witness ==
    /\ \E i \in 1..Len(bookings) : bookings[i].status = "Cancelled"
    /\ \E i \in 1..Len(bookings) :
          /\ bookings[i].status = "Confirmed"
          /\ Logged(journal, bookings[i].pnr, "PAYMENT_SUCCESS", "WAITLISTED")
          /\ AvailableOf(seatMap, bookings[i].trainNumber, bookings[i].date) = 0

(* ---------------- C2 ---------------- *)

\* C2: the status of an existing booking only ever changes Waitlist ->
\* Confirmed, Waitlist -> Cancelled or Confirmed -> Cancelled; no existing
\* booking is set to Waitlist and a Cancelled booking never changes again.
C2_StatusLattice ==
    [][/\ Len(bookings') >= Len(bookings)
       /\ \A i \in 1..Len(bookings) :
            bookings'[i].status # bookings[i].status =>
                <<bookings[i].status, bookings'[i].status>> \in
                    {<<"Waitlist", "Confirmed">>, <<"Waitlist", "Cancelled">>,
                     <<"Confirmed", "Cancelled">>}]_vars

\* A booking that went Waitlist -> Confirmed -> Cancelled: it was waitlisted
\* when booked and Confirmed when it was cancelled.
C2_Witness ==
    \E i \in 1..Len(bookings) :
        /\ bookings[i].status = "Cancelled"
        /\ Logged(journal, bookings[i].pnr, "PAYMENT_SUCCESS", "WAITLISTED")
        /\ Logged(journal, bookings[i].pnr, "CANCELLATION_SUCCESS", "COMMITTED")

(* ---------------- C3 ---------------- *)

\* C3: a booking with a known train, a valid date and a successful charge
\* appends exactly one ledger record; it is Confirmed and availability drops
\* by exactly the passenger count when availability at call time was
\* sufficient, otherwise it is Waitlist, availability is unchanged and exactly
\* one entry for it is appended to the queue of its (train, date) key.
C3_BookCreatesOneRecord ==
    [][PaidBookStep =>
         /\ Len(bookings') = Len(bookings) + 1
         /\ SubSeq(bookings', 1, Len(bookings)) = bookings
         /\ LET b == bookings'[Len(bookings')]
                key == <<b.trainNumber, b.date>>
                n == b.numPassengers
                before == AvailableOf(seatMap, b.trainNumber, b.date)
                after == AvailableOf(seatMap', b.trainNumber, b.date)
            IN /\ b.pnr = currentPNR'
               /\ n >= 1
               /\ \A k \in Keys \ {key} :
                     /\ waitlist'[k] = waitlist[k]
                     /\ AvailableOf(seatMap', k[1], k[2]) =
                           AvailableOf(seatMap, k[1], k[2])
               /\ IF before >= n
                  THEN /\ b.status = "Confirmed"
                       /\ after = before - n
                       /\ waitlist' = waitlist
                  ELSE /\ b.status = "Waitlist"
                       /\ after = before
                       /\ Len(waitlist'[key]) = Len(waitlist[key]) + 1
                       /\ SubSeq(waitlist'[key], 1, Len(waitlist[key])) =
                             waitlist[key]
                       /\ waitlist'[key][Len(waitlist'[key])].pnr = b.pnr
                       /\ waitlist'[key][Len(waitlist'[key])].numSeats = n]_vars

\* A full train booked in one request on a fresh date, and the next request
\* for that date just waitlisted.
C3_Witness ==
    /\ Len(bookings) = 2
    /\ bookings[1].numPassengers = getTotalSeats(bookings[1].trainNumber)
    /\ bookings[1].status = "Confirmed"
    /\ bookings[2].status = "Waitlist"
    /\ bookings[2].trainNumber = bookings[1].trainNumber
    /\ bookings[2].date = bookings[1].date
    /\ LastLogged(journal, bookings[2].pnr, "PAYMENT_SUCCESS", "WAITLISTED")
    /\ Len(waitlist[<<bookings[2].trainNumber, bookings[2].date>>]) = 1

(* ---------------- C4 ---------------- *)

\* C4: after cancelBooking on a booking whose status was Waitlist, no queue
\* of any (train, date) key holds an entry with that PNR.
C4_CancelledWaitlistEntryRemoved ==
    \A i \in 1..Len(bookings) :
        LastLogged(journal, bookings[i].pnr, "CANCELLATION_SUCCESS_WL",
                   "COMMITTED") =>
            \A k \in Keys : \A e \in 1..Len(waitlist[k]) :
                waitlist[k][e].pnr # bookings[i].pnr

(* ---------------- C5 ---------------- *)

\* C5: cancelBooking on a Confirmed booking of n seats raises the availability
\* of its key by exactly n, runs the promotion pass of that key with the
\* updated availability as capacity and leaves the booking Cancelled: the
\* final availability is the one before the cancel plus n minus the seats of
\* the bookings promoted, only bookings of that key are promoted, and no
\* queued Waitlist booking of the key that the pass left behind still fits.
C5_CancelConfirmed ==
    [][\A i \in 1..Len(bookings) :
         (bookings[i].status = "Confirmed"
          /\ CancelConfirmedStep(bookings[i].pnr)) =>
            LET b == bookings[i]
                key == <<b.trainNumber, b.date>>
                before == AvailableOf(seatMap, b.trainNumber, b.date)
                after == AvailableOf(seatMap', b.trainNumber, b.date)
            IN /\ Len(bookings') = Len(bookings)
               /\ bookings'[i].status = "Cancelled"
               /\ before + b.numPassengers <= getTotalSeats(b.trainNumber)
               /\ after = before + b.numPassengers
                             - SeatsOf(bookings, PromotedInStep)
               /\ \A j \in PromotedInStep :
                     <<bookings[j].trainNumber, bookings[j].date>> = key
               /\ \A e \in 1..Len(waitlist'[key]) :
                     LET j == findBooking(bookings', waitlist'[key][e].pnr)
                     IN (j # 0 /\ bookings'[j].status = "Waitlist") =>
                            waitlist'[key][e].numSeats > after]_vars

\* The scenario of the specification: the two-seat booking is cancelled, the
\* waitlisted one-seat booking is confirmed and one seat is left.
C5_Witness ==
    /\ Len(bookings) = 2
    /\ bookings[1].numPassengers = 2
    /\ bookings[1].status = "Cancelled"
    /\ LastLogged(journal, bookings[1].pnr, "CANCELLATION_SUCCESS", "COMMITTED")
    /\ bookings[2].numPassengers = 1
    /\ bookings[2].status = "Confirmed"
    /\ bookings[2].date = bookings[1].date
    /\ Logged(journal, bookings[2].pnr, "PAYMENT_SUCCESS", "WAITLISTED")
    /\ AvailableOf(seatMap, bookings[1].trainNumber, bookings[1].date) = 1

(* ---------------- C6 ---------------- *)

\* The capacity cancelBooking hands to the promotion pass of the key of the
\* booking b: the availability right after the seats of b were released.
CapacityAfterRelease(sms, b) ==
    getAvailableSeats(
        cancelSeat(sms[b.trainNumber], getTotalSeats(b.trainNumber), b.date,
                   b.numPassengers),
        getTotalSeats(b.trainNumber), b.date).ret

\* Positions of the queue q, from position i on, that a scan promotes when it
\* promotes an entry exactly when its numSeats fits the remaining counter.
RECURSIVE FitsAtItsTurn(_, _, _)
FitsAtItsTurn(q, i, counter) ==
    IF i > Len(q) THEN {}
    ELSE IF q[i].numSeats <= counter
         THEN {i} \cup FitsAtItsTurn(q, i + 1, counter - q[i].numSeats)
         ELSE FitsAtItsTurn(q, i + 1, counter)

\* C6: a promotion pass scans the queue once in rank order with a counter
\* that starts at the given availableSeats; an entry is promoted (booking set
\* Confirmed, counter reduced by numSeats) exactly when its numSeats is at most
\* the counter at its turn, and is skipped otherwise. Stated for the pass that
\* cancelBooking runs after releasing the seats of a Confirmed booking.
C6_PromotedExactlyWhenFits ==
    [][\A i \in 1..Len(bookings) :
         (bookings[i].status = "Confirmed"
          /\ CancelConfirmedStep(bookings[i].pnr)) =>
            LET b == bookings[i]
                q == waitlist[<<b.trainNumber, b.date>>]
                fits == FitsAtItsTurn(q, 1, CapacityAfterRelease(seatMap, b))
            IN \A e \in 1..Len(q) :
                  (findBooking(bookings, q[e].pnr) \in PromotedInStep)
                      <=> (e \in fits)]_vars

(* ---------------- C7 ---------------- *)

\* The entries of q whose PNR is not in the set pnrs, in their order.
RECURSIVE WithoutPnrs(_, _)
WithoutPnrs(q, pnrs) ==
    IF q = <<>> THEN <<>>
    ELSE IF Head(q).pnr \in pnrs THEN WithoutPnrs(Tail(q), pnrs)
         ELSE <<Head(q)>> \o WithoutPnrs(Tail(q), pnrs)

\* C7: after a promotion pass for a key, the queue of that key is exactly the
\* prior queue without the entries promoted in the pass, in the original
\* order and with the original ranks; nothing else is dropped. Stated for
\* the pass that cancelBooking runs for a Confirmed booking.
C7_QueueKeepsUnpromoted ==
    [][\A i \in 1..Len(bookings) :
         (bookings[i].status = "Confirmed"
          /\ CancelConfirmedStep(bookings[i].pnr)) =>
            LET key == <<bookings[i].trainNumber, bookings[i].date>>
                promotedPnrs == {bookings[j].pnr : j \in PromotedInStep}
            IN waitlist'[key] = WithoutPnrs(waitlist[key], promotedPnrs)]_vars

(* ---------------- C8 ---------------- *)

\* Ranks of every queue are positive and strictly increasing front to back.
RanksIncreasing ==
    \A k \in Keys :
        /\ \A e \in 1..Len(waitlist[k]) : waitlist[k][e].rank >= 1
        /\ \A e \in 1..(Len(waitlist[k]) - 1) :
              waitlist[k][e].rank < waitlist[k][e + 1].rank

\* A booking that is waitlisted gets rank 1 in an empty queue and the rank of
\* the current last entry plus 1 otherwise.
EnqueueRanksAfterLast ==
    (PaidBookStep /\ Len(bookings') = Len(bookings) + 1
     /\ bookings'[Len(bookings')].status = "Waitlist") =>
        LET b == bookings'[Len(bookings')]
            q == waitlist[<<b.trainNumber, b.date>>]
            q2 == waitlist'[<<b.trainNumber, b.date>>]
        IN /\ Len(q2) = Len(q) + 1
           /\ q2[Len(q2)].pnr = b.pnr
           /\ q2[Len(q2)].rank = IF q = <<>> THEN 1 ELSE q[Len(q)].rank + 1

\* C8: enqueue assigns rank 1 when the queue of the key is empty and otherwise
\* the rank of the current last entry plus 1, so in every reachable state the
\* ranks of each queue are positive and strictly increasing front to back.
C8_RankAssignment == [](RanksIncreasing) /\ [][EnqueueRanksAfterLast]_vars

\* A queue whose front entry has a rank above 1: the entry ranked 1 was
\* promoted and the entry behind it kept its rank.
C8_Witness ==
    \E k \in Keys : waitlist[k] # <<>> /\ waitlist[k][1].rank > 1

(* ---------------- C9 ---------------- *)

\* The step waitlists a new booking on the key k.
EnqueueStep(k) ==
    /\ PaidBookStep
    /\ Len(bookings') = Len(bookings) + 1
    /\ bookings'[Len(bookings')].status = "Waitlist"
    /\ <<bookings'[Len(bookings')].trainNumber,
         bookings'[Len(bookings')].date>> = k

\* C9 as claimed: for a fixed key, the ranks assigned by successive enqueues
\* of one run are strictly increasing over time, so no rank value is assigned
\* twice for the key.
C9_RanksNeverReused ==
    [][\A k \in Keys : EnqueueStep(k) => lastRank'[k] > lastRank[k]]_vars

\* C9 as amended: the rank assigned by an enqueue is strictly greater than
\* the rank of every entry then in the queue of the key, and strictly greater
\* than the rank assigned before for that key whenever an entry holding that
\* rank is still queued.
C9_RankAboveQueued ==
    [][\A k \in Keys : EnqueueStep(k) =>
         /\ lastRank'[k] = waitlist'[k][Len(waitlist'[k])].rank
         /\ \A e \in 1..Len(waitlist[k]) : waitlist[k][e].rank < lastRank'[k]
         /\ (\E e \in 1..Len(waitlist[k]) : waitlist[k][e].rank = lastRank[k])
                => lastRank'[k] > lastRank[k]]_vars

\* A rank assigned a second time: the booking first ranked 1 was promoted and
\* the booking just waitlisted on the same key is ranked 1 again.
C9_Witness ==
    \E k \in Keys :
        /\ Len(waitlist[k]) = 1
        /\ waitlist[k][1].rank = 1
        /\ waitlist[k][1].pnr = currentPNR
        /\ LastLogged(journal, currentPNR, "PAYMENT_SUCCESS", "WAITLISTED")
        /\ \E i \in 1..Len(bookings) :
              /\ <<bookings[i].trainNumber, bookings[i].date>> = k
              /\ bookings[i].pnr < currentPNR
              /\ bookings[i].status = "Confirmed"
              /\ Logged(journal, bookings[i].pnr, "PAYMENT_SUCCESS",
                        "WAITLISTED")

(* ---------------- C10 ---------------- *)

C11_InvalidDateNoEffect ==
    /\ [](\A d \in MalformedDates : ~isValidDate(d))
    /\ [][console' = "InvalidDate" =>
            /\ currentPNR' = currentPNR /\ pnrFile' = pnrFile
            /\ journal' = journal
            /\ bookings' = bookings /\ waitlist' = waitlist
            /\ seatMap' = seatMap
            /\ trainFile' = trainFile /\ bookingFile' = bookingFile]_vars

\* A request just skipped for its date while a booking is waiting on a sold
\* out date.
C11_Witness ==
    /\ console = "InvalidDate"
    /\ \E k \in Keys :
          /\ waitlist[k] # <<>>
          /\ AvailableOf(seatMap, k[1], k[2]) = 0

(* ---------------- C12 ---------------- *)

\* The step is cancelBooking(pnr) getting as far as its log line: the journal
\* grows and the first new line is the CANCELLATION_ATTEMPT line of the PNR.
CancelAttemptStep(pnr) ==
    /\ Len(journal') > Len(journal)
    /\ SubSeq(journal', 1, Len(journal)) = journal
    /\ journal'[Len(journal) + 1] =
          [pnr |-> pnr, action |-> "CANCELLATION_ATTEMPT",
           status |-> "PENDING_REFUND"]

\* C12: cancelBooking on a booking whose status is already Cancelled has no
\* side effects: the ledger, the seat maps, the waitlist queues and the
\* transaction journal are unchanged by the call (no refund is made).
C12_CancelCancelledNoEffect ==
    [][\A i \in 1..Len(bookings) :
         (bookings[i].status = "Cancelled"
          /\ CancelAttemptStep(bookings[i].pnr)) =>
            /\ journal' = journal
            /\ bookings' = bookings
            /\ seatMap' = seatMap
            /\ waitlist' = waitlist]_vars

(* ---------------- C13 ---------------- *)

\* C13: the sequence of PNRs issued by the generator is strictly increasing
\* over the whole history of the system, restarts included, also when the
\* persisted counter is missing, unreadable or below the floor at a start.
\* Every issued PNR is logged with a BOOKING_ATTEMPT line, in order of issue.
C13_IssuedStrictlyIncreasing ==
    \A a, b \in issued(journal) : a < b => journal[a].pnr < journal[b].pnr

(* ---------------- C14 ---------------- *)

\* C14: in every reachable state, states reached after restarts included, no
\* two records of the ledger carry the same PNR.
C14_LedgerPnrsDistinct ==
    \A i, j \in 1..Len(bookings) : i # j => bookings[i].pnr # bookings[j].pnr

(* ---------------- C15 ---------------- *)

\* C15: whatever the counter file holds when it is loaded (missing, empty,
\* not a number, a number below the floor), the counter is never below the
\* floor 100000000000 and every PNR issued is strictly greater than the floor.
C15_IssuedAboveFloor ==
    /\ currentPNR >= PNRBase
    /\ \A k \in issued(journal) : journal[k].pnr > PNRBase
    /\ \A i \in 1..Len(bookings) :
          bookings[i].pnr # EmptyPNR => bookings[i].pnr > PNRBase

\* The counter was loaded from a file that is missing, empty, not a number or
\* below the floor, after PNRs had been issued, and the booking made next got
\* the PNR right above the floor.
C15_Witness ==
    /\ \E a, b \in issued(journal) : a < b /\ journal[b].pnr <= journal[a].pnr
    /\ LastLogged(journal, PNRBase + 1, "PAYMENT_SUCCESS", "COMMITTED")
    /\ currentPNR = PNRBase + 1
    /\ pnrFile = savePNR(PNRBase + 1)

(* ---------------- C16 ---------------- *)

\* C16: whenever a PNR is visible outside the generator (a line of the
\* transaction log, a ledger record, a line of the booking file), the
\* counter file holds a number that is at least that PNR, wherever the
\* process died before; so the restarted system never issues that PNR again.
C16_VisiblePnrStored ==
    /\ \A k \in 1..Len(journal) :
          pnrFile.kind = "number" /\ journal[k].pnr <= pnrFile.n
    /\ \A i \in 1..Len(bookings) :
          bookings[i].pnr # EmptyPNR =>
             pnrFile.kind = "number" /\ bookings[i].pnr <= pnrFile.n
    /\ \A i \in 1..Len(bookingFile) :
          bookingFile[i][1] # EmptyPNR =>
             pnrFile.kind = "number" /\ bookingFile[i][1] <= pnrFile.n
    /\ \A a, b \in issued(journal) : a < b => journal[a].pnr < journal[b].pnr

(* ---------------- C17 ---------------- *)

\* The PNRs of the entries of a queue, in queue order.
PnrsOf(q) == [i \in 1..Len(q) |-> q[i].pnr]

\* The PNRs of the ledger records of key k whose status is Waitlist, in
\* ledger order.
WaitlistPnrsOf(bk, k) ==
    LET waits(b) == b.status = "Waitlist" /\ <<b.trainNumber, b.date>> = k
        sel == SelectSeq(bk, waits)
    IN [i \in 1..Len(sel) |-> sel[i].pnr]

\* The PNRs of the entries of queue q whose booking is still on Waitlist, in
\* queue order.
LivePnrs(q, bk) ==
    LET live(e) == \E i \in 1..Len(bk) :
                      bk[i].pnr = e.pnr /\ bk[i].status = "Waitlist"
    IN PnrsOf(SelectSeq(q, live))

\* The queues loadData builds from the lines of a booking file.
QueuesLoadedFrom(lines) ==
    reenqueue(loadBookings(lines), 1, [k \in Keys |-> <<>>])

\* C17: after a save followed by a load, the queue of each (train, date) key
\* holds exactly the bookings of that key whose status is Waitlist, in ledger
\* order, which is the order the live Waitlist entries had in the queue
\* before the restart. Stated on the states whose booking file is the saved
\* ledger, for the queues a load of that file builds.
C17_QueueRebuiltInOrder ==
    bookingFile = saveBookings(bookings) =>
        \A k \in Keys :
            /\ PnrsOf(QueuesLoadedFrom(bookingFile)[k]) = WaitlistPnrsOf(bookings, k)
            /\ PnrsOf(QueuesLoadedFrom(bookingFile)[k]) = LivePnrs(waitlist[k], bookings)

(* ---------------- C18 ---------------- *)

\* The (date, availableSeats) pairs of a seat map.
AllocationsOf(sm) == {<<sm[i].date, sm[i].availableSeats>> : i \in 1..Len(sm)}

\* The ledger and the seat maps a new process holds after loadData has read
\* the saved files.
LoadedLedger == loadBookings(bookingFile)
LoadedSeatMaps == loadTrains(trainFile)

\* C18: saving the state and loading it back yields the same bookings and
\* inventory: the same ledger records in the same order with the same pnr,
\* train, date, fare, status and passengers, and for every train the same
\* dates with the same availableSeats. Stated on the states whose files are
\* the saved state.
C18_SaveLoadRoundTrip ==
    (bookingFile = saveBookings(bookings) /\ trainFile = saveTrains(seatMap)) =>
        /\ LoadedLedger = bookings
        /\ \A t \in TrainNumbers :
              AllocationsOf(LoadedSeatMaps[t]) = AllocationsOf(seatMap[t])

(* ---------------- C19 ---------------- *)

\* A booking line parses: Booking::deserialize finds its seven fields and
\* reads a number for the fare and for the passenger count.
WellFormedLine(line) ==
    LET parts == splitBookingLine(line) IN
    Len(parts) >= 7 /\ parts[4].isNum /\ parts[6].isNum

\* The step is a start of the program that found a booking file other than
\* the one written.
DamagedLoadStep == bookingFile' # bookingFile /\ journal' = journal

\* The ledger of a load that skips the lines that do not parse and keeps,
\* in file order, the record of every line that parses.
RECURSIVE SkippingLoad(_)
SkippingLoad(lines) ==
    IF lines = <<>> THEN <<>>
    ELSE IF WellFormedLine(Head(lines))
         THEN <<deserializeBooking(Head(lines))>> \o SkippingLoad(Tail(lines))
         ELSE SkippingLoad(Tail(lines))

\* C19: on load, a booking line that fails to parse is skipped: it
\* contributes no record to the ledger, while every line that parses, before
\* or after it, is loaded unchanged. Stated for a start of the program on a
\* booking file with one damaged line.
C19_BadLineSkipped ==
    [][DamagedLoadStep => bookings' = SkippingLoad(bookingFile')]_vars

(* ---------------- C20 ---------------- *)

\* The step is a successful cancelBooking: its last log line is a
\* CANCELLATION_SUCCESS or CANCELLATION_SUCCESS_WL line.
CancelSuccessStep ==
    /\ Len(journal') = Len(journal) + 2
    /\ journal'[Len(journal')].action
          \in {"CANCELLATION_SUCCESS", "CANCELLATION_SUCCESS_WL"}

\* The stored files hold the ledger bk (every record with its pnr, train,
\* date and status, in order) and the seat maps sms (every date of every
\* train with its availableSeats).
SnapshotHolds(bfile, tfile, bk, sms) ==
    /\ Len(bfile) = Len(bk)
    /\ \A i \in 1..Len(bk) :
          /\ bfile[i][1] = bk[i].pnr
          /\ bfile[i][2] = bk[i].trainNumber
          /\ bfile[i][3] = bk[i].date
          /\ bfile[i][5] = bk[i].status
    /\ \A t \in TrainNumbers :
          /\ tfile[t][1] = Len(sms[t])
          /\ \A j \in 1..Len(sms[t]) :
                tfile[t][2][j] = <<sms[t][j].date, sms[t][j].availableSeats>>

\* C20: when a successful book, a successful cancel, or a promotion pass that
\* promoted at least one entry returns, the stored snapshot (ledger records
\* with their status, availableSeats per date) equals the state in memory.
C20_SavedAfterSuccess ==
    [][(PaidBookStep \/ CancelSuccessStep \/ PromotedInStep # {}) =>
          SnapshotHolds(bookingFile', trainFile', bookings', seatMap')]_vars

\* A Confirmed booking was cancelled, the pass of that cancel promoted a
\* booking that had been waitlisted, and the files hold both changes.
C20_Witness ==
    \E i, j \in 1..Len(bookings) :
        /\ bookings[i].status = "Cancelled"
        /\ LastLogged(journal, bookings[i].pnr, "CANCELLATION_SUCCESS", "COMMITTED")
        /\ bookings[j].status = "Confirmed"
        /\ Logged(journal, bookings[j].pnr, "PAYMENT_SUCCESS", "WAITLISTED")
        /\ bookingFile[i][5] = "Cancelled"
        /\ bookingFile[j][5] = "Confirmed"
        /\ SnapshotHolds(bookingFile, trainFile, bookings, seatMap)

(* ---------------- C21 ---------------- *)

\* The positions of the gate's record that are charges for the PNR.
ChargesFor(gw, pnr) ==
    {k \in 1..Len(gw) : gw[k].call = "processPayment" /\ gw[k].pnr = pnr}

\* Every ledger record was charged exactly once, successfully, for its
\* totalFare, which is the base fare times its passengers.
ChargedOnce ==
    \A i \in 1..Len(bookings) :
        /\ bookings[i].totalFare
              = getBaseFare(bookings[i].trainNumber) * bookings[i].numPassengers
        /\ \E k \in ChargesFor(gateway, bookings[i].pnr) :
              /\ ChargesFor(gateway, bookings[i].pnr) = {k}
              /\ gateway[k].ok
              /\ gateway[k].amount = bookings[i].totalFare

\* A step that issues a PNR makes one charge of base fare times passengers
\* and appends a record exactly when the charge succeeded; no other step
\* charges or creates a record.
ChargePerRequest ==
    IF BookStep
    THEN \E n \in 1..MaxGroup, ok \in BOOLEAN, tNum \in TrainNumbers :
            /\ gateway' = Append(gateway,
                              [call |-> "processPayment", pnr |-> currentPNR',
                               amount |-> getBaseFare(tNum) * n, ok |-> ok])
            /\ IF ok
               THEN /\ Len(bookings') = Len(bookings) + 1
                    /\ bookings'[Len(bookings')].pnr = currentPNR'
                    /\ bookings'[Len(bookings')].numPassengers = n
                    /\ bookings'[Len(bookings')].totalFare = getBaseFare(tNum) * n
               ELSE bookings' = bookings
    ELSE /\ Len(bookings') = Len(bookings)
         /\ \A k \in 1..Len(gateway') :
               gateway'[k].call = "processPayment" =>
                  k <= Len(gateway) /\ gateway[k] = gateway'[k]

\* C21: book calls the payment gate exactly once per request that passes
\* validation, for the amount base fare x passengers, whether or not seats
\* are sufficient; every ledger record has that amount as totalFare and
\* exists only because that one charge succeeded; a promotion never charges.
C21_OneChargePerBooking == [](ChargedOnce) /\ [][ChargePerRequest]_vars

\* A booking was charged while it went to the waitlist, was promoted later
\* by a cancellation, and has its one charge; another request was declined.
C21_Witness ==
    /\ \E i \in 1..Len(bookings) :
          /\ Logged(journal, bookings[i].pnr, "PAYMENT_SUCCESS", "WAITLISTED")
          /\ bookings[i].status = "Confirmed"
          /\ Cardinality(ChargesFor(gateway, bookings[i].pnr)) = 1
    /\ \E k \in 1..Len(gateway) :
          gateway[k].call = "processPayment" /\ ~gateway[k].ok

(* ---------------- C22 ---------------- *)

\* The positions of the gate's record that are refunds for the PNR.
RefundsFor(gw, pnr) ==
    {k \in 1..Len(gw) : gw[k].call = "processRefund" /\ gw[k].pnr = pnr}

\* The total amount refunded for the PNR.
RECURSIVE SumOfAmounts(_, _)
SumOfAmounts(gw, S) ==
    IF S = {} THEN 0
    ELSE LET k == CHOOSE x \in S : TRUE
         IN gw[k].amount + SumOfAmounts(gw, S \ {k})
TotalRefunded(gw, pnr) == SumOfAmounts(gw, RefundsFor(gw, pnr))

\* The booking was cancelled from Confirmed / from Waitlist: the log line of
\* its successful cancellation tells which.
CancelledFromConfirmed(pnr) ==
    Logged(journal, pnr, "CANCELLATION_SUCCESS", "COMMITTED")
CancelledFromWaitlist(pnr) ==
    Logged(journal, pnr, "CANCELLATION_SUCCESS_WL", "COMMITTED")

\* C22: over any sequence of cancel calls the total refunded for a booking
\* is 0 while it has never been cancelled successfully, 80% of its totalFare
\* if it was Confirmed when cancelled, 100% if it was Waitlist when
\* cancelled; a booking is never refunded twice.
C22_RefundTotals ==
    \A i \in 1..Len(bookings) :
        LET b == bookings[i] IN
        /\ Cardinality(RefundsFor(gateway, b.pnr)) <= 1
        /\ b.status # "Cancelled" => TotalRefunded(gateway, b.pnr) = 0
        /\ b.status = "Cancelled" =>
              /\ CancelledFromConfirmed(b.pnr) # CancelledFromWaitlist(b.pnr)
              /\ CancelledFromConfirmed(b.pnr) =>
                    10 * TotalRefunded(gateway, b.pnr) = 8 * b.totalFare
              /\ CancelledFromWaitlist(b.pnr) =>
                    TotalRefunded(gateway, b.pnr) = b.totalFare

\* One booking was cancelled from Confirmed, another from Waitlist, and a
\* cancel was called again on a Cancelled booking.
C22_Witness ==
    /\ \E i, j \in 1..Len(bookings) :
          /\ CancelledFromConfirmed(bookings[i].pnr)
          /\ CancelledFromWaitlist(bookings[j].pnr)
          /\ TotalRefunded(gateway, bookings[i].pnr) > 0
          /\ TotalRefunded(gateway, bookings[j].pnr) = bookings[j].totalFare
    /\ \E k \in 1..(Len(journal) - 1) :
          /\ journal[k].action \in {"CANCELLATION_SUCCESS", "CANCELLATION_SUCCESS_WL"}
          /\ \E m \in (k + 1)..Len(journal) :
                /\ journal[m].action = "CANCELLATION_ATTEMPT"
                /\ journal[m].pnr = journal[k].pnr

(* ---------------- C23 ---------------- *)

\* The ledger holds a record with the PNR.
InLedger(pnr) == \E i \in 1..Len(bookings) : bookings[i].pnr = pnr

\* The journal and the ledger agree on the outcome of every PNR: a payment
\* line COMMITTED or WAITLISTED exactly for the PNRs of the ledger, never
\* both, a record still on Waitlist only with a WAITLISTED line, and no
\* record for a PNR with a PAYMENT_FAILED/ROLLED_BACK line.
JournalAgrees ==
    \A pnr \in (PNRBase + 1)..currentPNR :
        LET committed == Logged(journal, pnr, "PAYMENT_SUCCESS", "COMMITTED")
            waitlisted == Logged(journal, pnr, "PAYMENT_SUCCESS", "WAITLISTED")
            failed == Logged(journal, pnr, "PAYMENT_FAILED", "ROLLED_BACK")
        IN /\ InLedger(pnr) <=> (committed \/ waitlisted)
           /\ ~(committed /\ waitlisted)
           /\ failed => ~InLedger(pnr)
           /\ \A i \in 1..Len(bookings) :
                 bookings[i].pnr = pnr /\ bookings[i].status = "Waitlist"
                    => waitlisted

\* The record a booking step creates is Confirmed exactly when the step
\* logged COMMITTED and Waitlist exactly when it logged WAITLISTED.
CreatedAsLogged ==
    PaidBookStep =>
        LET b == bookings'[Len(bookings')]
            line == journal'[Len(journal')]
        IN /\ Len(bookings') = Len(bookings) + 1
           /\ b.pnr = line.pnr
           /\ line.status \in {"COMMITTED", "WAITLISTED"}
           /\ b.status = "Confirmed" <=> line.status = "COMMITTED"
           /\ b.status = "Waitlist" <=> line.status = "WAITLISTED"

\* C23: the journal agrees with the ledger on every booking outcome: a PNR
\* has a PAYMENT_SUCCESS/COMMITTED line exactly when the ledger holds a
\* record with that PNR created as Confirmed, a PAYMENT_SUCCESS/WAITLISTED
\* line exactly when it holds a record created as Waitlist, and a PNR with a
\* PAYMENT_FAILED/ROLLED_BACK line is never in the ledger.
C23_JournalAgreesWithLedger == [](JournalAgrees) /\ [][CreatedAsLogged]_vars

\* The ledger holds a record created as Confirmed and one created as
\* Waitlist, and a third request was declined.
C23_Witness ==
    \E p1, p2, p3 \in (PNRBase + 1)..currentPNR :
        /\ Logged(journal, p1, "PAYMENT_SUCCESS", "COMMITTED") /\ InLedger(p1)
        /\ Logged(journal, p2, "PAYMENT_SUCCESS", "WAITLISTED") /\ InLedger(p2)
        /\ Logged(journal, p3, "PAYMENT_FAILED", "ROLLED_BACK") /\ ~InLedger(p3)

(* ---------------- C24 ---------------- *)

\* The step appends a journal line that carries the PNR.
JournalledInStep(pnr) ==
    \E k \in (Len(journal) + 1)..Len(journal') : journal'[k].pnr = pnr

\* The ledger positions whose status the step changes, and the positions it
\* appends.
TransitionsInStep ==
    {j \in 1..Len(bookings') :
        j > Len(bookings) \/ bookings'[j].status # bookings[j].status}

\* C24: every state transition the journal is to record appends a journal
\* line carrying the PNR concerned: booking attempt, payment outcome,
\* cancellation and promotion. In particular every booking that goes from
\* Waitlist to Confirmed has a journal line for its promotion.
C24_TransitionsJournalled ==
    [][/\ BookStep => JournalledInStep(currentPNR')
       /\ \A j \in TransitionsInStep : JournalledInStep(bookings'[j].pnr)
       /\ \A j \in PromotedInStep : JournalledInStep(bookings[j].pnr)]_vars

(* ---------------- C25 ---------------- *)

\* The smaller of two numbers.
Min(a, b) == IF a < b THEN a ELSE b

\* cancelSeat(date, count) applied to the seat map sm of a train with total
\* seats: the date reads min(total, what it read before + count), the
\* allocations of the other dates are unchanged and none is added or removed,
\* and a date without an allocation still reads full capacity.
ReleaseClamped(sm, total, date, count) ==
    LET after == cancelSeat(sm, total, date, count)
        before == getAvailableSeats(sm, total, date).ret
    IN /\ getAvailableSeats(after, total, date).ret = Min(total, before + count)
       /\ Len(after) = Len(sm)
       /\ \A i \in 1..Len(sm) :
             /\ after[i].date = sm[i].date
             /\ sm[i].date # date => after[i] = sm[i]
       /\ allocIndex(sm, date) = 0 =>
             /\ after = sm
             /\ getAvailableSeats(after, total, date).ret = total

\* C25: release(service, date, count) sets availableSeats to
\* min(totalCapacity, availableSeats + count) for that date and changes no
\* other date; a release on a date never referenced leaves that date at full
\* capacity when it is next read. Stated for every seat map the train can
\* hold, every valid date and every count.
C25_ReleaseClamps ==
    \A tNum \in TrainNumbers, date \in InventoryDates, count \in 1..MaxGroup :
        ReleaseClamped(seatMap[tNum], getTotalSeats(tNum), date, count)

\* A seat map with a date at full capacity (a release is clamped), a date
\* with no seat left (a release adds) and a date never referenced (a release
\* does nothing).
C25_Witness ==
    \E tNum \in TrainNumbers, d1, d2, d3 \in InventoryDates :
        LET sm == seatMap[tNum] IN
        /\ allocIndex(sm, d1) # 0
        /\ sm[allocIndex(sm, d1)].availableSeats = getTotalSeats(tNum)
        /\ allocIndex(sm, d2) # 0
        /\ sm[allocIndex(sm, d2)].availableSeats = 0
        /\ allocIndex(sm, d3) = 0

(* ---------------- C26 ---------------- *)

\* C26: the ledger is append-only within a process lifetime: no book, cancel
\* or promotion removes or reorders a record or changes its pnr, train, date,
\* passengers or totalFare; the only field of an existing record that
\* changes is its status, and new records are appended at the end.
C26_LedgerAppendOnly ==
    [][/\ Len(bookings') >= Len(bookings)
       /\ Len(bookings') <= Len(bookings) + 1
       /\ \A i \in 1..Len(bookings) :
             bookings'[i] = [bookings[i] EXCEPT !.status = bookings'[i].status]
       /\ Len(bookings') = Len(bookings) + 1 => PaidBookStep]_vars

\* The ledger holds three records in the order of their PNRs, the first
\* cancelled and the second promoted from the waitlist.
C26_Witness ==
    /\ Len(bookings) = 3
    /\ bookings[1].pnr < bookings[2].pnr /\ bookings[2].pnr < bookings[3].pnr
    /\ bookings[1].status = "Cancelled"
    /\ bookings[2].status = "Confirmed"
    /\ Logged(journal, bookings[2].pnr, "PAYMENT_SUCCESS", "WAITLISTED")

(* ---------------- C27 ---------------- *)

\* The ledger positions of the Confirmed bookings of a train and date.
ConfirmedOf(bk, tNum, date) ==
    {i \in 1..Len(bk) : /\ bk[i].trainNumber = tNum
                         /\ bk[i].date = date
                         /\ bk[i].status = "Confirmed"}

\* C27: seat conservation: in every state between operations, for every
\* train and every valid date, availableSeats (a date not seen counting as
\* totalSeats) plus the passengers of the train's Confirmed bookings for the
\* date equals totalSeats, after any sequence of book, cancel and promotion
\* operations on a fixed catalog.
C27_SeatConservation ==
    \A tNum \in TrainNumbers, date \in Dates :
        AvailableOf(seatMap, tNum, date)
          + SeatsOf(bookings, ConfirmedOf(bookings, tNum, date))
        = getTotalSeats(tNum)

\* A train is full on a date with one booking made Confirmed and one
\* promoted from the waitlist after a cancellation, a third still waiting.
C27_Witness ==
    \E tNum \in TrainNumbers, date \in Dates :
        /\ AvailableOf(seatMap, tNum, date) = 0
        /\ \E i \in ConfirmedOf(bookings, tNum, date) :
              Logged(journal, bookings[i].pnr, "PAYMENT_SUCCESS", "WAITLISTED")
        /\ \E i \in 1..Len(bookings) :
              bookings[i].status = "Cancelled" /\ bookings[i].date = date
        /\ \E i \in 1..Len(bookings) :
              bookings[i].status = "Waitlist" /\ bookings[i].date = date

(* ---------------- C28 ---------------- *)

\* The positions of queue q that hold an entry for the PNR.
EntriesFor(q, pnr) == {j \in 1..Len(q) : q[j].pnr = pnr}

\* Every ledger booking on Waitlist has exactly one entry in the queue of its
\* own key, with numSeats equal to its passengers, and none in another queue.
WaitlistedAreQueued ==
    \A i \in 1..Len(bookings) :
        bookings[i].status = "Waitlist" =>
            LET b == bookings[i]
                own == <<b.trainNumber, b.date>>
            IN /\ own \in Keys
               /\ Cardinality(EntriesFor(waitlist[own], b.pnr)) = 1
               /\ \A j \in EntriesFor(waitlist[own], b.pnr) :
                     waitlist[own][j].numSeats = b.numPassengers
               /\ \A k \in Keys \ {own} : EntriesFor(waitlist[k], b.pnr) = {}

\* A booking on Waitlist leaves the waitlist only by being promoted or
\* cancelled: after any step it is still in the ledger, Waitlist, Confirmed
\* or Cancelled.
WaitlistedStay ==
    \A i \in 1..Len(bookings) :
        bookings[i].status = "Waitlist" =>
            /\ i <= Len(bookings')
            /\ bookings'[i].pnr = bookings[i].pnr
            /\ bookings'[i].status \in {"Waitlist", "Confirmed", "Cancelled"}

\* C28: in every state between operations every ledger booking on Waitlist
\* has exactly one entry in the queue of its own (train, date) key, with
\* numSeats equal to its passenger count, and no entry in another queue: a
\* waitlisted booking is never lost from the queue by a book, cancel,
\* promotion pass or restart.
C28_WaitlistedInQueue == [](WaitlistedAreQueued) /\ [][WaitlistedStay]_vars

(* ---------------- C29 ---------------- *)

\* availableSeats of the date in the stored seat map of the train, a date
\* without a stored allocation counting as totalSeats.
StoredAvailable(tfile, tNum, date) ==
    LET data == tfile[tNum]
        at == {j \in 1..data[1] : data[2][j][1] = date}
    IN IF at = {} THEN getTotalSeats(tNum)
       ELSE data[2][CHOOSE j \in at : \A m \in at : j <= m][2]

\* The passengers of the stored Confirmed bookings of the train and date.
RECURSIVE StoredSeats(_, _)
StoredSeats(bfile, S) ==
    IF S = {} THEN 0
    ELSE LET i == CHOOSE x \in S : TRUE
         IN bfile[i][6] + StoredSeats(bfile, S \ {i})
StoredConfirmed(bfile, tNum, date) ==
    {i \in 1..Len(bfile) : /\ bfile[i][2] = tNum
                            /\ bfile[i][3] = date
                            /\ bfile[i][5] = "Confirmed"}

\* C29: every snapshot written to the files, one written in the middle of an
\* operation included, satisfies seat conservation: for each train and date
\* the stored availableSeats plus the passengers of the stored Confirmed
\* bookings equals totalSeats. In particular the snapshot written by the
\* promotion pass inside a cancel does not show the cancelled booking as
\* Confirmed with its seats given away.
C29_SnapshotsConserveSeats ==
    \A tNum \in TrainNumbers, date \in Dates :
        StoredAvailable(trainFile, tNum, date)
          + StoredSeats(bookingFile, StoredConfirmed(bookingFile, tNum, date))
        = getTotalSeats(tNum)

(* ---------------- C30 ---------------- *)

\* C30: in every state between operations (fixed catalog) no booking on
\* Waitlist fits in the free seats of its key: for every Waitlist booking b
\* on a valid date, available(b.train, b.date) < passengers of b.
C30_NoWaitlistedFits ==
    \A i \in 1..Len(bookings) :
        bookings[i].status = "Waitlist" =>
            AvailableOf(seatMap, bookings[i].trainNumber, bookings[i].date)
              < bookings[i].numPassengers

\* After a cancellation and its promotion pass a seat is free and a booking
\* that needs more than the free seats is still on Waitlist.
C30_Witness ==
    \E i, j \in 1..Len(bookings) :
        /\ bookings[i].status = "Cancelled"
        /\ CancelledFromConfirmed(bookings[i].pnr)
        /\ bookings[j].status = "Waitlist"
        /\ bookings[j].date = bookings[i].date
        /\ AvailableOf(seatMap, bookings[j].trainNumber, bookings[j].date) > 0

(* ---------------- C31 ---------------- *)

\* Positions of the queue q whose entry carries the PNR.
PositionsOf(q, pnr) == {e \in 1..Len(q) : q[e].pnr = pnr}

\* The entry at position e of the queue q was ranked before the entry at
\* position p, asks for no more seats, and its booking is on Waitlist.
EarlierNoLarger(q, e, p) ==
    /\ q[e].rank < q[p].rank
    /\ q[e].numSeats <= q[p].numSeats
    /\ LET i == findBooking(bookings, q[e].pnr)
       IN i # 0 /\ bookings[i].status = "Waitlist"

\* C31: within one promotion pass (of cancelBooking or of
\* processWaitlistManual) no entry is promoted while an entry of the same
\* queue with a smaller rank, whose booking is on Waitlist and whose numSeats
\* is at most the promoted entry's numSeats, stays in the queue: that earlier
\* entry has left the queue and its booking is Confirmed after the pass.
C31_PromotionFollowsArrival ==
    [][\A j \in PromotedInStep :
         LET key == <<bookings[j].trainNumber, bookings[j].date>>
             q == waitlist[key]
         IN \A p \in PositionsOf(q, bookings[j].pnr) :
              \A e \in 1..Len(q) :
                 EarlierNoLarger(q, e, p) =>
                    /\ PositionsOf(waitlist'[key], q[e].pnr) = {}
                    /\ findBooking(bookings, q[e].pnr) \in PromotedInStep]_vars

\* Two bookings of one key went to the waitlist in their order of arrival,
\* the second asking for no fewer seats than the first, and both are
\* Confirmed after the pass that followed the cancellation of a Confirmed
\* booking of that key.
C31_Witness ==
    \E x, i, j \in 1..Len(bookings) :
        /\ i < j
        /\ bookings[x].status = "Cancelled"
        /\ CancelledFromConfirmed(bookings[x].pnr)
        /\ bookings[i].date = bookings[x].date
        /\ bookings[j].date = bookings[x].date
        /\ bookings[i].numPassengers <= bookings[j].numPassengers
        /\ Logged(journal, bookings[i].pnr, "PAYMENT_SUCCESS", "WAITLISTED")
        /\ Logged(journal, bookings[j].pnr, "PAYMENT_SUCCESS", "WAITLISTED")
        /\ bookings[i].status = "Confirmed"
        /\ bookings[j].status = "Confirmed"

(* ---------------- C32 ---------------- *)

\* The ledger, the queues and every availability of two outcomes agree.
SameReservations(a, b) ==
    /\ a.bookings = b.bookings
    /\ a.waitlist = b.waitlist
    /\ \A t \in TrainNumbers, d \in Dates :
          AvailableOf(a.seatMap, t, d) = AvailableOf(b.seatMap, t, d)

\* The reservations of the current state.
Current == [seatMap |-> seatMap, bookings |-> bookings, waitlist |-> waitlist]

\* The promotion pass for the key with the current available(tNum, date) as
\* its capacity.
PassAtAvailable(tNum, date) ==
    promoteWaitlist(date, tNum, AvailableOf(seatMap, tNum, date), seatMap,
                    bookings, waitlist)

\* C32: processWaitlistManual(tNum, date) runs the promotion pass with
\* capacity available(tNum, date); called twice in a row it leaves the
\* ledger, the availabilities and the queues as one call does (the second
\* call promotes and saves nothing); and it changes none of them when no
\* seat is available or the queue of the key is empty.
C32_ManualPassIdempotent ==
    \A tNum \in TrainNumbers, date \in Dates :
        LET once == processWaitlistManualOf(tNum, date, seatMap, bookings,
                                            waitlist)
            twice == processWaitlistManualOf(tNum, date, once.seatMap,
                                             once.bookings, once.waitlist)
        IN /\ SameReservations(once, PassAtAvailable(tNum, date))
           /\ once.promoted = PassAtAvailable(tNum, date).promoted
           /\ SameReservations(twice, once)
           /\ twice.seatMap = once.seatMap
           /\ ~twice.promoted
           /\ (AvailableOf(seatMap, tNum, date) <= 0
                 \/ waitlist[<<tNum, date>>] = <<>>) =>
                  SameReservations(once, Current) /\ ~once.promoted

\* A booking whose only charge put it on the waitlist is Confirmed while no
\* Confirmed booking was ever cancelled, so a manual pass promoted it.
C32_Witness ==
    /\ \A x \in 1..Len(bookings) : ~CancelledFromConfirmed(bookings[x].pnr)
    /\ \E i \in 1..Len(bookings) :
          /\ \A x \in 1..Len(bookings) : bookings[x].pnr = bookings[i].pnr => x = i
          /\ bookings[i].status = "Confirmed"
          /\ Logged(journal, bookings[i].pnr, "PAYMENT_SUCCESS", "WAITLISTED")
          /\ ~Logged(journal, bookings[i].pnr, "PAYMENT_SUCCESS", "COMMITTED")

====
